---- MODULE Spec2Model ----
(***************************************************************************)
(* Settlement engine of the trip-expense backend, STAY (recurring) mode.   *)
(*                                                                         *)
(* The store is the set of PostgreSQL tables the engine reads and writes   *)
(* for one STAY trip.  Money is kept as integers scaled by Scale, so that  *)
(* total_expense / total_members is exact; Python's float drift (1e-13)    *)
(* is not modelled, Python's round() (half to even) is.                    *)
(*                                                                         *)
(* A finalize request (POST /record_stay_settlement/{trip_id}) is a        *)
(* sequence of steps on one connection with two commits, plus a second     *)
(* connection for the history snapshot; every other handler is one step.   *)
(* Rows written and not yet committed live in the request (pendLog,        *)
(* pendArch, pendDel) and reach the tables at the commit.                  *)
(***************************************************************************)
EXTENDS Integers, FiniteSets, Sequences, TLC

\* ------------------------------------------------------------------ bounds
MaxFamilies    == 3
MaxMembers     == 1
MaxExpenses    == 1
MaxPayments    == 1
MaxSettlements == 2
MaxDay         == 0
MaxSec         == 5
MaxReqs        == 2
MaxAdvances    == 1
MaxLen         == 3
MaxWindows     == 2
MaxChain       == 3

\* ------------------------------------------------------- program constants
GuardSeconds   == 5
SecondsPerDay  == 86400
CentsPerUnit   == 100

\* -------------------------------------------------------------- input sets
Amounts     == {100}
PayAmounts  == {20}
\* the amount a payment is changed to
EditAmounts == {30}
\* the instants the clock is observed at: the start of each day, and on the
\* first day from one second before the guard window closes on
Instants    == {d * SecondsPerDay : d \in 0..MaxDay} \cup ((GuardSeconds - 1)..MaxSec)
Reqs        == 1..MaxReqs
\* the trip ids in the database: the trip of a finalize and another one
Trips       == {1, 2}
\* members_count values a caller may send: FamilyIn declares a plain int
Weights     == (0 - MaxMembers)..MaxMembers
NoId        == 0

\* ------------------------------------------------------------- arithmetic
RECURSIVE Gcd(_, _)
Gcd(a, b) == IF b = 0 THEN a ELSE Gcd(b, a % b)

RECURSIVE LcmUpTo(_)
LcmUpTo(n) == IF n <= 1 THEN 1 ELSE LET l == LcmUpTo(n - 1) IN (l * n) \div Gcd(l, n)

\* one currency unit; divisible by every possible total_members and by 100
Scale == CentsPerUnit * LcmUpTo(MaxFamilies * MaxMembers)

\* 0.01 currency units
Eps == Scale \div CentsPerUnit

Abs(x) == IF x < 0 THEN -x ELSE x

RECURSIVE SumF(_)
SumF(f) ==
    IF DOMAIN f = {} THEN 0
    ELSE LET x == CHOOSE y \in DOMAIN f : TRUE
         IN  f[x] + SumF([y \in DOMAIN f \ {x} |-> f[y]])

SumAmount(R) == SumF([r \in R |-> r.amount])

\* Python round(x, ndigits) on a value scaled by Scale: nearest multiple of
\* unit, ties to the even multiple
RoundTo(x, unit) ==
    LET q == x \div unit
        r == x % unit
    IN  IF 2 * r < unit THEN q * unit
        ELSE IF 2 * r > unit THEN (q + 1) * unit
        ELSE IF q % 2 = 0 THEN q * unit ELSE (q + 1) * unit

\* round(x)
PyRound(x) == RoundTo(x, Scale)

\* round(x, 2)
PyRound2(x) == RoundTo(x, Eps)

VARIABLES
    families,     \* family_details of the trip: id -> members_count
    expenses,     \* expenses rows
    payments,     \* settlement_transactions rows (the active payments)
    archive,      \* settlement_transactions_archive rows
    settlements,  \* stay_settlements rows
    details,      \* stay_settlement_details rows
    cflog,        \* stay_carry_forward_log rows
    history,      \* stay_settlement_history rows
    now,          \* wall clock, seconds
    hasCreatedAt, \* does this deployment's expenses table have created_at
    serial,       \* SERIAL sequences of the tables
    req,          \* the finalize requests in flight
    audit,        \* bookkeeping of what each settlement was computed from
    advances,     \* advances rows (TRIP mode)
    reply,        \* what the last one-step handler answered
    mini,         \* the balances handed to the debt minimizer on its own
    trip,         \* the trip_id whose rows the tables above hold
    elsewhere     \* the rows of the same tables that carry another trip_id

store == <<families, expenses, payments, archive, settlements, details, cflog, history>>
vars  == <<families, expenses, payments, archive, settlements, details, cflog, history,
           now, hasCreatedAt, serial, req, audit, advances, reply, mini, trip, elsewhere>>

\* every table and sequence of the database
tables == <<store, advances, serial>>

Today(t) == t \div SecondsPerDay

\* --------------------------------------------------------- period resolver
NoSettlement == [id |-> NoId, period_start |-> 0, period_end |-> 0, total_expense |-> 0,
                 total_members |-> 0, per_head_cost |-> 0, created_at |-> 0]

\* SELECT ... FROM stay_settlements WHERE trip_id = %s ORDER BY id DESC LIMIT 1
LastSettlement ==
    IF settlements = {} THEN NoSettlement
    ELSE CHOOSE s \in settlements : \A o \in settlements : o.id <= s.id

\* the WHERE clause _build_expense_time_filter appends, applied to one row
InPeriod(e, prev) ==
    IF prev.id = NoId THEN TRUE
    ELSE IF hasCreatedAt THEN e.created_at > prev.created_at
    ELSE e.date >= prev.period_end

PeriodExpenses(prev) == {e \in expenses : InPeriod(e, prev)}

\* ------------------------------------------------------- balance calculator
TotalExpense(prev) == SumAmount(PeriodExpenses(prev))

TotalMembers == LET m == SumF(families) IN IF m = 0 THEN 1 ELSE m

\* x / n for a divisor of either sign; exact, as n divides Scale
Quot(x, n) == IF n < 0 THEN (0 - x) \div (0 - n) ELSE x \div n

PerHeadCost(prev) == Quot(TotalExpense(prev), TotalMembers)

\* carry-forward map read from the previous settlement's detail rows
PreviousBalance(fid, prev) ==
    LET rows == {d \in details : d.settlement_id = prev.id /\ d.family_id = fid}
    IN  IF prev.id = NoId \/ rows = {} THEN 0
        ELSE (CHOOSE d \in rows : TRUE).adjusted_balance

Spent(fid, prev) == SumAmount({e \in PeriodExpenses(prev) : e.payer = fid})

Due(fid, prev) == PerHeadCost(prev) * families[fid]

NetBalance(fid, prev) == PreviousBalance(fid, prev) + (Spent(fid, prev) - Due(fid, prev))

\* ------------------------------------------------------- adjustment applier
Adjustment(fid) ==
    SumAmount({p \in payments : p.from = fid}) - SumAmount({p \in payments : p.to = fid})

Adjusted(fid, prev) == NetBalance(fid, prev) + Adjustment(fid)

TotalAdjusted(prev) == SumF([f \in DOMAIN families |-> Adjusted(f, prev)])

\* max(results, key=abs(adjusted_balance)): the first maximal row in id order
CorrectionTarget(prev) ==
    CHOOSE f \in DOMAIN families : \A g \in DOMAIN families :
        \/ Abs(Adjusted(g, prev)) < Abs(Adjusted(f, prev))
        \/ Abs(Adjusted(g, prev)) = Abs(Adjusted(f, prev)) /\ f <= g

Corrected(fid, prev) ==
    IF Abs(TotalAdjusted(prev)) > Eps /\ fid = CorrectionTarget(prev)
    THEN Adjusted(fid, prev) - TotalAdjusted(prev)
    ELSE Adjusted(fid, prev)

\* the residual is taken from the first participant
ZeroSumCorrectionFirst(bal) ==
    LET total_adj == SumF(bal)
    IN  IF Abs(total_adj) > Eps THEN [bal EXCEPT ![1] = @ - total_adj] ELSE bal

\* step 6b of calculate_stay_settlement on a vector of adjusted balances
ZeroSumCorrection(bal) ==
    LET total_adj == SumF(bal)
        target == CHOOSE f \in DOMAIN bal : \A g \in DOMAIN bal :
                      \/ Abs(bal[g]) < Abs(bal[f])
                      \/ Abs(bal[g]) = Abs(bal[f]) /\ f <= g
    IN  IF Abs(total_adj) > Eps THEN [bal EXCEPT ![target] = @ - total_adj] ELSE bal

\* ------------------------------------------------ calculate_stay_settlement
NoResult == [previous_settlement_id |-> NoId, period_start |-> 0, period_end |-> 0,
             total_expense |-> 0, total_members |-> 0, per_head_cost |-> 0,
             families |-> <<>>]

CalcStay ==
    LET prev == LastSettlement
    IN  [previous_settlement_id |-> prev.id,
         period_start  |-> IF prev.id # NoId THEN prev.period_end + 1 ELSE Today(now),
         period_end    |-> Today(now),
         total_expense |-> PyRound(TotalExpense(prev)),
         total_members |-> TotalMembers,
         per_head_cost |-> PyRound(PerHeadCost(prev)),
         families      |-> [f \in DOMAIN families |->
                              [members_count    |-> families[f],
                               total_spent      |-> PyRound(Spent(f, prev)),
                               due_amount       |-> PyRound(Due(f, prev)),
                               previous_balance |-> PyRound(PreviousBalance(f, prev)),
                               balance          |-> PyRound(NetBalance(f, prev)),
                               adjusted_balance |-> PyRound(Corrected(f, prev))]]]

\* ------------------------------------------------------------ debt minimizer
\* list.sort(key=...) is stable: rows with equal keys keep the order of the
\* results list, which is the id order of the query
SortedBy(S, key) ==
    LET Before(f, g) == key[f] < key[g] \/ (key[f] = key[g] /\ f < g)
        Pos(f) == 1 + Cardinality({g \in S : Before(g, f)})
    IN  [i \in 1..Cardinality(S) |-> CHOOSE f \in S : Pos(f) = i]

Min(a, b) == IF a < b THEN a ELSE b

\* the while loop of step 7 of calculate_stay_settlement
RECURSIVE StayLoop(_, _, _, _, _)
StayLoop(cs, ds, ci, di, out) ==
    IF ci > Len(cs) \/ di > Len(ds) THEN out
    ELSE LET c_bal == PyRound2(cs[ci].bal)
             d_bal == PyRound2(ds[di].bal)
         IN  IF c_bal < Eps THEN StayLoop(cs, ds, ci + 1, di, out)
             ELSE IF d_bal > 0 - Eps THEN StayLoop(cs, ds, ci, di + 1, out)
             ELSE LET pay_amt == Min(c_bal, 0 - d_bal)
                      cbal == cs[ci].bal - pay_amt
                      dbal == ds[di].bal + pay_amt
                      out2 == IF pay_amt > Eps
                              THEN Append(out, [from |-> ds[di].fid, to |-> cs[ci].fid,
                                                amount |-> PyRound(pay_amt)])
                              ELSE out
                  IN  StayLoop([cs EXCEPT ![ci].bal = cbal], [ds EXCEPT ![di].bal = dbal],
                               IF Abs(cbal) < Eps THEN ci + 1 ELSE ci,
                               IF Abs(dbal) < Eps THEN di + 1 ELSE di,
                               out2)

\* step 7 of calculate_stay_settlement on a vector of adjusted balances
SuggestStay(bal) ==
    LET C == {f \in DOMAIN bal : bal[f] > Eps}
        D == {f \in DOMAIN bal : bal[f] < 0 - Eps}
        cord == SortedBy(C, [f \in C |-> 0 - bal[f]])
        dord == SortedBy(D, [f \in D |-> bal[f]])
    IN  StayLoop([i \in DOMAIN cord |-> [fid |-> cord[i], bal |-> bal[cord[i]]]],
                 [i \in DOMAIN dord |-> [fid |-> dord[i], bal |-> bal[dord[i]]]],
                 1, 1, <<>>)

\* the nested loops of step 6 of get_settlement: debtor di with owed left,
\* creditor cj next
RECURSIVE TripLoop(_, _, _, _, _, _)
TripLoop(ds, cs, di, cj, owed, out) ==
    IF di > Len(ds) THEN out
    ELSE IF cj > Len(cs) \/ owed <= 0
         THEN IF di + 1 > Len(ds) THEN out
              ELSE TripLoop(ds, cs, di + 1, 1, ds[di + 1].bal, out)
    ELSE IF cs[cj].bal <= 0 THEN TripLoop(ds, cs, di, cj + 1, owed, out)
    ELSE LET payment == Min(owed, cs[cj].bal)
         IN  TripLoop(ds, [cs EXCEPT ![cj].bal = @ - payment], di, cj + 1, owed - payment,
                      Append(out, [from |-> ds[di].fid, to |-> cs[cj].fid,
                                   amount |-> PyRound(payment)]))

\* a minimizer that pays every creditor in two instalments
SuggestTripTwice(bal) ==
    LET D == {f \in DOMAIN bal : 2 * bal[f] < 0 - Scale}
        C == {f \in DOMAIN bal : 2 * bal[f] > Scale}
        dord == SortedBy(D, [f \in D |-> f])
        cord == SortedBy(C, [f \in C |-> f])
        ds == [i \in DOMAIN dord |-> [fid |-> dord[i], bal |-> Abs(bal[dord[i]])]]
        cs == [i \in 1..(2 * Len(cord)) |->
                 [fid |-> cord[(i + 1) \div 2], bal |-> bal[cord[(i + 1) \div 2]] \div 2]]
    IN  IF ds = <<>> THEN <<>> ELSE TripLoop(ds, cs, 1, 1, ds[1].bal, <<>>)

\* step 6 of get_settlement on a vector of adjusted balances
SuggestTrip(bal) ==
    LET D == {f \in DOMAIN bal : 2 * bal[f] < 0 - Scale}
        C == {f \in DOMAIN bal : 2 * bal[f] > Scale}
        dord == SortedBy(D, [f \in D |-> f])
        cord == SortedBy(C, [f \in C |-> f])
        ds == [i \in DOMAIN dord |-> [fid |-> dord[i], bal |-> Abs(bal[dord[i]])]]
        cs == [i \in DOMAIN cord |-> [fid |-> cord[i], bal |-> bal[cord[i]]]]
    IN  IF ds = <<>> THEN <<>> ELSE TripLoop(ds, cs, 1, 1, ds[1].bal, <<>>)

\* the "suggested" list of the STAY result
StaySuggested ==
    SuggestStay([f \in DOMAIN families |-> Corrected(f, LastSettlement)])

\* what GET /settlement/{trip_id}?mode=STAY returns
StayView == [suggested |-> StaySuggested] @@ CalcStay

\* ------------------------------------------------------------ get_settlement
\* expenses whose payer is a family of the trip (step 2)
TripPaid(fid) == SumAmount({e \in expenses : e.payer = fid})

TripTotalExpense == SumF([f \in DOMAIN families |-> TripPaid(f)])

TripTotalMembers == SumF(families)

TripPerHeadCost ==
    IF TripTotalMembers > 0 THEN Quot(TripTotalExpense, TripTotalMembers) ELSE 0

\* advances: giver +, taker - (step 4)
AdvanceBalance(fid) ==
    SumAmount({a \in advances : a.payer = fid}) - SumAmount({a \in advances : a.receiver = fid})

TripNet(fid) == TripPaid(fid) - families[fid] * TripPerHeadCost + AdvanceBalance(fid)

TripAdjusted(fid) == TripNet(fid) + Adjustment(fid)

NoFamilies == [message |-> "No families found for this trip."]

CalcTrip ==
    IF DOMAIN families = {} THEN NoFamilies
    ELSE [total_expense |-> PyRound(TripTotalExpense),
          total_members |-> TripTotalMembers,
          per_head_cost |-> PyRound(TripPerHeadCost),
          families      |-> [f \in DOMAIN families |->
                               [members_count    |-> families[f],
                                total_spent      |-> PyRound(TripPaid(f)),
                                raw_balance      |-> PyRound(TripNet(f)),
                                balance          |-> PyRound(PyRound(TripNet(f))),
                                adjusted_balance |-> PyRound(TripAdjusted(f))]],
          suggested     |-> SuggestTrip([f \in DOMAIN families |-> TripAdjusted(f)])]

\* ------------------------------------------------------------ initial state
Error == -1

IdleReq == [pc |-> "idle", result |-> NoResult, counted |-> {}, applied |-> {},
            expSerial |-> 0,
            txnStart |-> 0, sid |-> NoId, pendLog |-> {}, pendArch |-> {},
            pendDel |-> {}, snapFailed |-> FALSE, retry |-> FALSE,
            ret |-> NoId, trip |-> NoId]

NoReply == [op |-> "none"]

\* a trip without rows in any table
NoGroup == [families |-> <<>>, expenses |-> {}, payments |-> {}, archive |-> {},
            settlements |-> {}, details |-> {}, cflog |-> {}, history |-> {},
            advances |-> {}]

Init ==
    /\ families = <<>>
    /\ expenses = {}
    /\ payments = {}
    /\ archive = {}
    /\ settlements = {}
    /\ details = {}
    /\ cflog = {}
    /\ history = {}
    /\ now = 0
    /\ hasCreatedAt \in BOOLEAN
    /\ serial = [family |-> 1, expense |-> 1, payment |-> 1, settlement |-> 1, archive |-> 1,
                 advance |-> 1]
    /\ req = [r \in Reqs |-> IdleReq]
    /\ audit = <<>>
    /\ advances = {}
    /\ reply = NoReply
    /\ mini = <<>>
    /\ trip = 1
    /\ elsewhere = [h \in Trips \ {1} |-> NoGroup]

\* ------------------------------------------------------- one-step handlers
\* POST /add_family
AddFamily(m) ==
    /\ serial.family <= MaxFamilies
    /\ families' = families @@ (serial.family :> m)
    /\ serial' = [serial EXCEPT !.family = @ + 1]
    /\ UNCHANGED <<expenses, payments, archive, settlements, details, cflog, history,
                   now, hasCreatedAt, req, audit,
                   advances, reply, mini, trip, elsewhere>>

\* POST /add_expense
AddExpense(payer, amt, d) ==
    /\ serial.expense <= MaxExpenses
    /\ payer \in DOMAIN families
    /\ expenses' = expenses \cup
          {[id |-> serial.expense, payer |-> payer, amount |-> amt * Scale, date |-> d,
            created_at |-> IF hasCreatedAt THEN now ELSE 0]}
    /\ serial' = [serial EXCEPT !.expense = @ + 1]
    /\ UNCHANGED <<families, payments, archive, settlements, details, cflog, history,
                   now, hasCreatedAt, req, audit,
                   advances, reply, mini, trip, elsewhere>>

\* POST /settlement_transaction
AddPayment(from, to, amt) ==
    /\ serial.payment <= MaxPayments
    /\ from \in DOMAIN families /\ to \in DOMAIN families /\ from # to
    /\ payments' = payments \cup
          {[id |-> serial.payment, from |-> from, to |-> to, amount |-> amt * Scale]}
    /\ serial' = [serial EXCEPT !.payment = @ + 1]
    /\ UNCHANGED <<families, expenses, archive, settlements, details, cflog, history,
                   now, hasCreatedAt, req, audit,
                   advances, reply, mini, trip, elsewhere>>

\* POST /add_advance
AddAdvance(from, to, amt) ==
    /\ serial.advance <= MaxAdvances
    /\ from \in DOMAIN families /\ to \in DOMAIN families /\ from # to
    /\ advances' = advances \cup
          {[id |-> serial.advance, payer |-> from, receiver |-> to, amount |-> amt * Scale]}
    /\ serial' = [serial EXCEPT !.advance = @ + 1]
    /\ UNCHANGED <<families, expenses, payments, archive, settlements, details, cflog,
                   history, now, hasCreatedAt, req, audit, reply, mini, trip, elsewhere>>

\* PUT /update_family/{family_id}
UpdateFamily(f, m) ==
    /\ f \in DOMAIN families
    /\ families[f] # m
    /\ families' = [families EXCEPT ![f] = m]
    /\ UNCHANGED <<expenses, payments, archive, settlements, details, cflog, history,
                   now, hasCreatedAt, serial, req, audit, advances, reply, mini, trip, elsewhere>>

\* DELETE /delete_family/{family_id}: expenses keep the row with the payer
\* set to NULL, detail rows and advances of the family are deleted with it
\* (ON DELETE SET NULL / CASCADE); the tables whose DDL is not in
\* database.py keep their rows
DeleteFamily(f) ==
    /\ f \in DOMAIN families
    /\ families' = [g \in DOMAIN families \ {f} |-> families[g]]
    /\ expenses' = {IF e.payer = f THEN [e EXCEPT !.payer = NoId] ELSE e : e \in expenses}
    /\ details' = {d \in details : d.family_id # f}
    /\ advances' = {a \in advances : a.payer # f /\ a.receiver # f}
    /\ UNCHANGED <<payments, archive, settlements, cflog, history, now, hasCreatedAt,
                   serial, req, audit, reply, mini, trip, elsewhere>>

\* PUT /update_settlement_transaction/{txn_id}
UpdatePayment(id, amt) ==
    /\ reply' = [op |-> "update_settlement_transaction", txn |-> id,
                 active |-> (id \in {p.id : p \in payments}),
                 result |-> IF id \notin {p.id : p \in payments} THEN "not found"
                            ELSE IF settlements # {} THEN "already finalized"
                            ELSE "updated"]
    /\ payments' =
          IF settlements = {}
          THEN {IF p.id = id THEN [p EXCEPT !.amount = PyRound(amt * Scale)] ELSE p
                  : p \in payments}
          ELSE payments
    /\ UNCHANGED <<families, expenses, archive, settlements, details, cflog, history,
                   now, hasCreatedAt, serial, req, audit, advances, mini, trip, elsewhere>>

\* DELETE /delete_settlement_transaction/{txn_id}
DeletePayment(id) ==
    /\ reply' = [op |-> "delete_settlement_transaction", txn |-> id,
                 active |-> (id \in {p.id : p \in payments}),
                 result |-> IF id \notin {p.id : p \in payments} THEN "not found"
                            ELSE IF settlements # {} THEN "already finalized"
                            ELSE "deleted"]
    /\ payments' = IF settlements = {} THEN {p \in payments : p.id # id} ELSE payments
    /\ UNCHANGED <<families, expenses, archive, settlements, details, cflog, history,
                   now, hasCreatedAt, serial, req, audit, advances, mini, trip, elsewhere>>

\* a read path that clears the active payments
GetStayClearing ==
    /\ UNCHANGED <<families, expenses, archive, settlements, details, cflog,
                   history, now, hasCreatedAt, serial, req, audit, advances, mini, trip, elsewhere>>
    /\ payments' = {}
    /\ reply' = [op |-> "settlement STAY", trip |-> trip, result |-> StayView,
                 seen |-> tables]

\* GET /settlement/{trip_id}?mode=STAY, record not set
GetStay ==
    /\ UNCHANGED <<families, expenses, payments, archive, settlements, details, cflog,
                   history, now, hasCreatedAt, serial, req, audit, advances, mini, trip, elsewhere>>
    /\ reply' = [op |-> "settlement STAY", trip |-> trip, result |-> StayView,
                 seen |-> tables]

\* GET /sync_settlement/{trip_id} and GET /settlement/{trip_id}?mode=TRIP
GetTrip ==
    /\ UNCHANGED <<families, expenses, payments, archive, settlements, details, cflog,
                   history, now, hasCreatedAt, serial, req, audit, advances, mini, trip, elsewhere>>
    /\ reply' = [op |-> "settlement TRIP", trip |-> trip, result |-> CalcTrip,
                 seen |-> tables]

\* the wall clock advances
Tick(t) ==
    /\ t > now
    /\ now' = t
    /\ UNCHANGED <<families, expenses, payments, archive, settlements, details, cflog,
                   history, hasCreatedAt, serial, req, audit,
                   advances, reply, mini, trip, elsewhere>>

\* ------------------------------------- POST /record_stay_settlement/{trip_id}
\* result = calculate_stay_settlement(trip_id)
ComputeUpTo(r, cap) ==
    /\ req[r].pc = "idle"
    /\ Cardinality(settlements) < cap
    /\ req' = [req EXCEPT ![r] = [IdleReq EXCEPT
                  !.pc = "computed",
                  !.result = CalcStay,
                  !.counted = {e.id : e \in PeriodExpenses(LastSettlement)},
                  !.applied = {p.id : p \in payments},
                  !.expSerial = serial.expense,
                  !.trip = trip,
                  !.retry = req[r].retry]]
    /\ UNCHANGED <<families, expenses, payments, archive, settlements, details, cflog,
                   history, now, hasCreatedAt, serial, audit,
                   advances, reply, mini, trip, elsewhere>>

Compute(r) == ComputeUpTo(r, MaxSettlements)

\* the duplicate guard with a window one second too short
TooRecentShort(existing, t) ==
    existing.id # NoId /\ t - existing.created_at < GuardSeconds - 1

\* the duplicate guard of record_stay_settlement; its SELECT opens the transaction
TooRecent(existing, t) == existing.id # NoId /\ t - existing.created_at < GuardSeconds

Guard(r) ==
    /\ req[r].pc = "computed"
    /\ IF TooRecent(LastSettlement, now)
       THEN req' = [req EXCEPT ![r].pc = "done", ![r].ret = LastSettlement.id]
       ELSE req' = [req EXCEPT ![r].pc = "open", ![r].txnStart = now]
    /\ UNCHANGED <<families, expenses, payments, archive, settlements, details, cflog,
                   history, now, hasCreatedAt, serial, audit,
                   advances, reply, mini, trip, elsewhere>>

\* the rows record_stay_settlement writes to stay_settlement_details
StoredBalance(x) == LET v == PyRound2(x) IN IF Abs(v) < Eps THEN 0 ELSE v

DetailRows(sid, result) ==
    {[settlement_id |-> sid, family_id |-> f,
      balance |-> StoredBalance(result.families[f].balance),
      adjusted_balance |-> StoredBalance(result.families[f].adjusted_balance)]
        : f \in DOMAIN result.families}

\* 1) summary row, 2) detail rows, first conn.commit()
InsertCommit(r) ==
    LET sid == serial.settlement
        res == req[r].result
    IN  /\ req[r].pc = "open"
        /\ settlements' = settlements \cup
              {[id |-> sid, period_start |-> res.period_start, period_end |-> res.period_end,
                total_expense |-> res.total_expense, total_members |-> res.total_members,
                per_head_cost |-> res.per_head_cost, created_at |-> req[r].txnStart]}
        /\ details' = details \cup DetailRows(sid, res)
        /\ serial' = [serial EXCEPT !.settlement = @ + 1]
        /\ req' = [req EXCEPT ![r].pc = "committed", ![r].sid = sid]
        /\ audit' = audit @@ (sid :> [counted |-> req[r].counted, applied |-> req[r].applied,
                                      baseline |-> res.previous_settlement_id,
                                      carried |-> [f \in DOMAIN res.families |->
                                                     res.families[f].previous_balance],
                                      expSerial |-> req[r].expSerial,
                                      by |-> r, complete |-> FALSE])
        /\ UNCHANGED <<families, expenses, payments, archive, cflog, history, now,
                       hasCreatedAt,
                   advances, reply, mini, trip, elsewhere>>

\* record_carry_forward_log: the rows it inserts for (prev, new)
AdjustedOf(sid, fid) ==
    LET rows == {d \in details : d.settlement_id = sid /\ d.family_id = fid}
    IN  IF rows = {} THEN 0 ELSE (CHOOSE d \in rows : TRUE).adjusted_balance

CarryForwardRows(prevId, newId) ==
    {[previous_settlement_id |-> prevId, new_settlement_id |-> newId,
      family_id |-> d.family_id,
      previous_balance |-> IF prevId = NoId THEN 0 ELSE AdjustedOf(prevId, d.family_id),
      new_balance |-> d.adjusted_balance,
      delta |-> d.adjusted_balance
                  - (IF prevId = NoId THEN 0 ELSE AdjustedOf(prevId, d.family_id))]
        : d \in {x \in details : x.settlement_id = newId}}

\* 3) carry-forward log, written in the request's second transaction
LogStep(r) ==
    /\ req[r].pc = "committed"
    /\ req' = [req EXCEPT
          ![r].pc = "logged",
          ![r].pendLog =
              IF \E l \in cflog \cup req[r].pendLog : l.new_settlement_id = req[r].sid
              THEN req[r].pendLog
              ELSE CarryForwardRows(req[r].result.previous_settlement_id, req[r].sid)]
    /\ UNCHANGED <<families, expenses, payments, archive, settlements, details, cflog,
                   history, now, hasCreatedAt, serial, audit,
                   advances, reply, mini, trip, elsewhere>>

\* 3b) record_settlement_snapshot: own connection, own commit
SnapshotStep(r) ==
    /\ req[r].pc = "logged"
    /\ history' =
          IF \E h \in history : h.new_settlement_id = req[r].sid THEN history
          ELSE history \cup {[new_settlement_id |-> req[r].sid,
                              prev_settlement_id |-> req[r].result.previous_settlement_id]}
    /\ req' = [req EXCEPT ![r].pc = "snapshotted"]
    /\ UNCHANGED <<families, expenses, payments, archive, settlements, details, cflog,
                   now, hasCreatedAt, serial, audit,
                   advances, reply, mini, trip, elsewhere>>

\* record_settlement_snapshot raises inside: rolled back, printed, swallowed
SnapshotFail(r) ==
    /\ req[r].pc = "logged"
    /\ req' = [req EXCEPT ![r].pc = "snapshotted", ![r].snapFailed = TRUE]
    /\ UNCHANGED <<families, expenses, payments, archive, settlements, details, cflog,
                   history, now, hasCreatedAt, serial, audit,
                   advances, reply, mini, trip, elsewhere>>

\* position of a payment among the rows of one INSERT ... SELECT
Rank(p, P) == Cardinality({q \in P : q.id < p.id})

\* 4) INSERT INTO settlement_transactions_archive ... SELECT: the statement
\* copies the committed active payments, rows another request has deleted
\* and not yet committed included
ArchiveInsert(r) ==
    /\ req[r].pc = "snapshotted"
    /\ req' = [req EXCEPT
          ![r].pc = "archived",
          ![r].pendArch = {[id |-> serial.archive + Rank(p, payments), from |-> p.from,
                            to |-> p.to, amount |-> p.amount,
                            settlement_id |-> req[r].sid, src |-> p.id] : p \in payments}]
    /\ serial' = [serial EXCEPT !.archive = @ + Cardinality(payments)]
    /\ UNCHANGED <<families, expenses, payments, archive, settlements, details, cflog,
                   history, now, hasCreatedAt, audit,
                   advances, reply, mini, trip, elsewhere>>

\* rows locked by the uncommitted DELETE of another request
LockedByOther(r) == UNION {req[o].pendDel : o \in Reqs \ {r}}

\* DELETE FROM settlement_transactions, without the WHERE clause
ArchiveDeleteAll(r) ==
    /\ req[r].pc = "archived"
    /\ {p.id : p \in payments} \cap LockedByOther(r) = {}
    /\ req' = [req EXCEPT
          ![r].pc = "cleared",
          ![r].pendDel = {p.id : p \in payments}
                            \cup UNION {{p.id : p \in elsewhere[h].payments}
                                           : h \in DOMAIN elsewhere}]
    /\ UNCHANGED <<families, expenses, payments, archive, settlements, details, cflog,
                   history, now, hasCreatedAt, serial, audit,
                   advances, reply, mini, trip, elsewhere>>

\* DELETE FROM settlement_transactions WHERE trip_id = %s; waits for row locks
ArchiveDelete(r) ==
    /\ req[r].pc = "archived"
    /\ {p.id : p \in payments} \cap LockedByOther(r) = {}
    /\ req' = [req EXCEPT ![r].pc = "cleared", ![r].pendDel = {p.id : p \in payments}]
    /\ UNCHANGED <<families, expenses, payments, archive, settlements, details, cflog,
                   history, now, hasCreatedAt, serial, audit,
                   advances, reply, mini, trip, elsewhere>>

\* second conn.commit(); return settlement_id.  The rows the DELETE took
\* leave settlement_transactions, whatever trip_id they carry
Commit2(r) ==
    /\ req[r].pc = "cleared"
    /\ cflog' = cflog \cup req[r].pendLog
    /\ archive' = archive \cup req[r].pendArch
    /\ payments' = {p \in payments : p.id \notin req[r].pendDel}
    /\ req' = [req EXCEPT ![r].pc = "done", ![r].ret = req[r].sid,
                           ![r].pendLog = {}, ![r].pendArch = {}, ![r].pendDel = {}]
    /\ elsewhere' = [h \in DOMAIN elsewhere |->
                        [elsewhere[h] EXCEPT
                            !.payments = {p \in @ : p.id \notin req[r].pendDel}]]
    /\ audit' = [audit EXCEPT ![req[r].sid].complete = TRUE]
    /\ UNCHANGED <<families, expenses, settlements, details, history, now, hasCreatedAt,
                   serial,
                   advances, reply, mini, trip>>

\* a statement or commit raises: conn.rollback() drops what is not yet
\* committed, the exception reaches the endpoint (HTTP 500)
Fail(r) ==
    /\ req[r].pc \in {"open", "committed", "logged", "snapshotted", "archived", "cleared"}
    /\ req' = [req EXCEPT ![r].pc = "done", ![r].ret = Error,
                           ![r].pendLog = {}, ![r].pendArch = {}, ![r].pendDel = {}]
    /\ UNCHANGED <<families, expenses, payments, archive, settlements, details, cflog,
                   history, now, hasCreatedAt, serial, audit,
                   advances, reply, mini, trip, elsewhere>>

\* the endpoint answers; the caller may call again
Respond(r) ==
    /\ req[r].pc = "done"
    /\ req' = [req EXCEPT ![r] = [IdleReq EXCEPT !.retry = (req[r].ret = Error)]]
    /\ UNCHANGED <<families, expenses, payments, archive, settlements, details, cflog,
                   history, now, hasCreatedAt, serial, audit,
                   advances, reply, mini, trip, elsewhere>>

\* ---------------------------------------------------------- specifications
Handlers ==
    \/ \E m \in 1..MaxMembers : AddFamily(m)
    \/ \E f \in DOMAIN families : \E a \in Amounts : \E d \in 0..MaxDay :
           AddExpense(f, a, d)
    \/ \E f \in DOMAIN families : \E t \in DOMAIN families : \E a \in PayAmounts :
           AddPayment(f, t, a)

Clock == \E t \in Instants : Tick(t)

FinalizeOnce(r) ==
    \/ Compute(r)
    \/ Guard(r)
    \/ InsertCommit(r)
    \/ LogStep(r)
    \/ SnapshotStep(r)
    \/ ArchiveInsert(r)
    \/ ArchiveDelete(r)
    \/ Commit2(r)

Finalize(r) == FinalizeOnce(r) \/ Respond(r)

Failures(r) ==
    \/ SnapshotFail(r)
    \/ Fail(r)

\* one caller at a time, no failing statement
NextSeq == Handlers \/ Clock \/ Finalize(1)
SpecSeq == Init /\ [][NextSeq]_vars

\* one caller, statements may fail
NextFail == Handlers \/ Clock \/ Finalize(1) \/ Failures(1)
SpecFail == Init /\ [][NextFail]_vars

\* the duplicate guard: one caller at a time, no failing statement; families
\* of one member, payments from family 1 to family 2, no cost entries (the
\* guard reads none of them)
GuardHandlers ==
    \/ AddFamily(1)
    \/ \E a \in PayAmounts : AddPayment(1, 2, a)

NextGuard == GuardHandlers \/ Clock \/ Finalize(1)
SpecGuard == Init /\ [][NextGuard]_vars

\* concurrent callers, one call each and in the order of their numbers, no
\* failing statement; the other handlers run before the first call
Quiet == \A r \in Reqs : req[r].pc = "idle"

QuietAddFamily(m) == Quiet /\ AddFamily(m)
QuietAddExpense(f, a, d) == Quiet /\ AddExpense(f, a, d)
QuietAddPayment(f, t, a) == Quiet /\ AddPayment(f, t, a)
ComputeInOrder(r) == (\A o \in 1..(r - 1) : req[o].pc # "idle") /\ Compute(r)

NextConc ==
    \/ \E m \in 1..MaxMembers : QuietAddFamily(m)
    \/ \E f \in DOMAIN families : \E a \in Amounts : \E d \in 0..MaxDay :
           QuietAddExpense(f, a, d)
    \/ \E f \in DOMAIN families : \E t \in DOMAIN families : \E a \in PayAmounts :
           QuietAddPayment(f, t, a)
    \/ Clock
    \/ \E r \in Reqs : ComputeInOrder(r)
    \/ \E r \in Reqs : Guard(r)
    \/ \E r \in Reqs : InsertCommit(r)
    \/ \E r \in Reqs : LogStep(r)
    \/ \E r \in Reqs : SnapshotStep(r)
    \/ \E r \in Reqs : ArchiveInsert(r)
    \/ \E r \in Reqs : ArchiveDelete(r)
    \/ \E r \in Reqs : Commit2(r)
SpecConc == Init /\ [][NextConc]_vars

\* the read paths, one caller at a time who waits for each answer: two
\* families of one member, cost entries of family 1, payments and advances
\* from family 1 to family 2
Delivered == [op |-> "delivered"]

Calm == reply \in {NoReply, Delivered} /\ req[1].pc = "idle"

\* the caller has read the answer
Deliver ==
    /\ reply \notin {NoReply, Delivered}
    /\ reply' = Delivered
    /\ UNCHANGED <<families, expenses, payments, archive, settlements, details, cflog,
                   history, now, hasCreatedAt, serial, req, audit, advances, mini, trip, elsewhere>>

NextRead ==
    \/ Calm /\ AddFamily(1)
    \/ Calm /\ \E a \in Amounts : AddExpense(1, a, 0)
    \/ Calm /\ \E a \in PayAmounts : AddPayment(1, 2, a)
    \/ Calm /\ \E a \in PayAmounts : AddAdvance(1, 2, a)
    \/ Calm /\ GetStay
    \/ Calm /\ GetTrip
    \/ Deliver
    \/ Calm /\ Compute(1)
    \/ Guard(1)
    \/ InsertCommit(1)
    \/ LogStep(1)
    \/ SnapshotStep(1)
    \/ ArchiveInsert(1)
    \/ ArchiveDelete(1)
    \/ Commit2(1)
    \/ Respond(1)
SpecRead == Init /\ [][NextRead]_vars

\* the chain of settlements: one caller, families of one member and
\* payments from family 1 to family 2 between the finalize calls, up to
\* MaxChain settlements, the clock moving on by one guard window at a time
NextWindow ==
    /\ Quiet
    /\ now + GuardSeconds <= MaxWindows * GuardSeconds
    /\ Tick(now + GuardSeconds)

NextChain ==
    \/ QuietAddFamily(1)
    \/ \E a \in PayAmounts : QuietAddPayment(1, 2, a)
    \/ NextWindow
    \/ ComputeUpTo(1, MaxChain)
    \/ Guard(1)
    \/ InsertCommit(1)
    \/ LogStep(1)
    \/ SnapshotStep(1)
    \/ ArchiveInsert(1)
    \/ ArchiveDelete(1)
    \/ Commit2(1)
    \/ Respond(1)
SpecChain == Init /\ [][NextChain]_vars

\* maintenance of the group, one caller at a time who waits for each answer:
\* participants of one member are added and deleted, payments and advances
\* go from family 1 to family 2, payments are updated and deleted, both
\* views are read, the group is finalized
NextEdit ==
    \/ Calm /\ AddFamily(1)
    \/ Calm /\ \E f \in DOMAIN families : DeleteFamily(f)
    \/ Calm /\ \E f \in DOMAIN families : \E a \in Amounts : AddExpense(f, a, 0)
    \/ Calm /\ \E a \in PayAmounts : AddPayment(1, 2, a)
    \/ Calm /\ \E a \in PayAmounts : AddAdvance(1, 2, a)
    \/ Calm /\ \E id \in 1..MaxPayments : \E a \in EditAmounts : UpdatePayment(id, a)
    \/ Calm /\ \E id \in 1..MaxPayments : DeletePayment(id)
    \/ Calm /\ GetStay
    \/ Calm /\ GetTrip
    \/ Deliver
    \/ Calm /\ Compute(1)
    \/ Guard(1)
    \/ InsertCommit(1)
    \/ LogStep(1)
    \/ SnapshotStep(1)
    \/ ArchiveInsert(1)
    \/ ArchiveDelete(1)
    \/ Commit2(1)
    \/ Respond(1)
SpecEdit == Init /\ [][NextEdit]_vars

\* participants of any weight: they are added and updated, family 1 pays the
\* cost entries, both views are read, the group is finalized
NextWeights ==
    \/ Calm /\ \E m \in Weights : AddFamily(m)
    \/ Calm /\ \E f \in DOMAIN families : \E m \in Weights : UpdateFamily(f, m)
    \/ Calm /\ \E a \in Amounts : AddExpense(1, a, 0)
    \/ Calm /\ GetStay
    \/ Calm /\ GetTrip
    \/ Deliver
    \/ Calm /\ Compute(1)
    \/ Guard(1)
    \/ InsertCommit(1)
    \/ LogStep(1)
    \/ SnapshotStep(1)
    \/ ArchiveInsert(1)
    \/ ArchiveDelete(1)
    \/ Commit2(1)
    \/ Respond(1)
SpecWeights == Init /\ [][NextWeights]_vars

\* several trips in one database.  Every statement of the engine names the
\* trip_id of the request; the tables above hold the rows with the trip_id
\* of the request at hand, elsewhere holds the rows of the other trips
Here == [families |-> families, expenses |-> expenses, payments |-> payments,
         archive |-> archive, settlements |-> settlements, details |-> details,
         cflog |-> cflog, history |-> history, advances |-> advances]

\* the next statement is about trip h
Switch(h) ==
    /\ h \in DOMAIN elsewhere
    /\ trip' = h
    /\ families' = elsewhere[h].families
    /\ expenses' = elsewhere[h].expenses
    /\ payments' = elsewhere[h].payments
    /\ archive' = elsewhere[h].archive
    /\ settlements' = elsewhere[h].settlements
    /\ details' = elsewhere[h].details
    /\ cflog' = elsewhere[h].cflog
    /\ history' = elsewhere[h].history
    /\ advances' = elsewhere[h].advances
    /\ elsewhere' = [k \in (DOMAIN elsewhere \ {h}) \cup {trip} |->
                        IF k = trip THEN Here ELSE elsewhere[k]]
    /\ UNCHANGED <<now, hasCreatedAt, serial, req, audit, reply, mini>>

\* the statement at hand belongs to request r
OnTrip(r) == req[r].trip = trip

\* the caller of SpecGroups goes through the trips in the order of their
\* ids, and turns back only to the trip of the finalize in flight or to
\* the trip of the view read last
Turn(h) ==
    /\ \/ Quiet /\ h = trip + 1
       \/ req[1].pc # "idle" /\ h = req[1].trip
       \/ reply.op = "settlement STAY" /\ h = reply.trip
    /\ Switch(h)

\* participants per trip in SpecGroups
GroupSize == 2

\* trips side by side, one caller: while no finalize is in flight,
\* participants of one member join, a payment is recorded between the
\* participants of a trip, the STAY view is read; each trip is finalized
\* once, step by step, while the caller's other statements turn to another
\* trip
NextGroups ==
    \/ Cardinality(DOMAIN families) < GroupSize /\ QuietAddFamily(1)
    \/ \E f \in DOMAIN families : \E t \in DOMAIN families : \E a \in PayAmounts :
           f < t /\ QuietAddPayment(f, t, a)
    \/ \E h \in Trips : Turn(h)
    \/ Quiet /\ reply \in {NoReply, Delivered} /\ GetStay
    \/ Quiet /\ Deliver
    \/ ComputeUpTo(1, 1)
    \/ OnTrip(1) /\ Guard(1)
    \/ OnTrip(1) /\ InsertCommit(1)
    \/ OnTrip(1) /\ LogStep(1)
    \/ OnTrip(1) /\ SnapshotStep(1)
    \/ OnTrip(1) /\ ArchiveInsert(1)
    \/ OnTrip(1) /\ ArchiveDelete(1)
    \/ OnTrip(1) /\ Commit2(1)
    \/ Respond(1)
SpecGroups == Init /\ [][NextGroups]_vars

\* the debt minimizers on their own: the adjusted balances of 1..MaxLen
\* participants are drawn from Balances, then one of the two minimizers runs
Balances == {0 - 2 * Scale, 0 - Scale, 0 - (Scale \div 3), 0 - 2 * Eps, 0, Eps,
             Scale \div 3, Scale, 2 * Scale}

InitMin ==
    /\ families = <<>>
    /\ expenses = {}
    /\ payments = {}
    /\ archive = {}
    /\ settlements = {}
    /\ details = {}
    /\ cflog = {}
    /\ history = {}
    /\ now = 0
    /\ hasCreatedAt = FALSE
    /\ serial = [family |-> 1, expense |-> 1, payment |-> 1, settlement |-> 1, archive |-> 1,
                 advance |-> 1]
    /\ req = [r \in Reqs |-> IdleReq]
    /\ audit = <<>>
    /\ advances = {}
    /\ reply = NoReply
    /\ trip = 1
    /\ elsewhere = [h \in Trips \ {1} |-> NoGroup]
    /\ \E n \in 1..MaxLen : \E b \in [1..n -> Balances] :
          mini = [bal |-> b, by |-> "input", out |-> <<>>]

MinimizeStay ==
    /\ mini.by = "input"
    /\ mini' = [mini EXCEPT !.by = "STAY", !.out = SuggestStay(mini.bal)]
    /\ UNCHANGED <<families, expenses, payments, archive, settlements, details, cflog,
                   history, now, hasCreatedAt, serial, req, audit, advances, reply,
                   trip, elsewhere>>

MinimizeTrip ==
    /\ mini.by = "input"
    /\ mini' = [mini EXCEPT !.by = "TRIP", !.out = SuggestTrip(mini.bal)]
    /\ UNCHANGED <<families, expenses, payments, archive, settlements, details, cflog,
                   history, now, hasCreatedAt, serial, req, audit, advances, reply,
                   trip, elsewhere>>

\* step 6b of calculate_stay_settlement on its own
CorrectBalances ==
    /\ mini.by = "input"
    /\ mini' = [mini EXCEPT !.by = "correction", !.out = ZeroSumCorrection(mini.bal)]
    /\ UNCHANGED <<families, expenses, payments, archive, settlements, details, cflog,
                   history, now, hasCreatedAt, serial, req, audit, advances, reply,
                   trip, elsewhere>>

NextMin == MinimizeStay \/ MinimizeTrip \/ CorrectBalances
SpecMin == InitMin /\ [][NextMin]_vars

\* ------------------------------------------------------------------ claims
DetailsOf(sid) == {d \in details : d.settlement_id = sid}

ActiveIds == {p.id : p \in payments}

SumAdjustedBalance(rows) == SumF([d \in rows |-> d.adjusted_balance])

\* C1: every persisted settlement of the STAY group has stored
\* adjusted_balance values that sum to zero within epsilon (0.01).
C1_StoredZeroSum ==
    \A s \in settlements : Abs(SumAdjustedBalance(DetailsOf(s.id))) <= Eps

\* C2: with at least one participant, the adjusted_balance values of the
\* result calculate_stay_settlement returns sum to at most 0.01 in magnitude.
C2_ComputedZeroSum ==
    \A r \in Reqs :
        (req[r].pc # "idle" /\ DOMAIN req[r].result.families # {}) =>
            Abs(SumF([f \in DOMAIN req[r].result.families |->
                        req[r].result.families[f].adjusted_balance])) <= Eps

\* C3: round trip.  The latest settlement was finalized completely, no cost
\* entry was added since it was computed, no payment is active and no call is
\* in flight: the next computation returns, for every participant,
\* net_balance = adjusted_balance = the adjusted_balance that finalize stored.
RoundTripCase ==
    /\ settlements # {}
    /\ audit[LastSettlement.id].complete
    /\ audit[LastSettlement.id].expSerial = serial.expense
    /\ payments = {}
    /\ \A r \in Reqs : req[r].pc = "idle"

C3_RoundTrip ==
    RoundTripCase =>
        \A f \in DOMAIN families :
            /\ CalcStay.families[f].balance = CalcStay.families[f].adjusted_balance
            /\ CalcStay.families[f].balance = AdjustedOf(LastSettlement.id, f)

\* C4: a cost entry dated at or before the previous settlement's period_end
\* is left out of the current computation, and no cost entry is counted in
\* the total_cost or paid amounts of more than one persisted settlement.
C4_NoDoubleCount ==
    /\ \A e \in expenses :
          (settlements # {} /\ e.date <= LastSettlement.period_end) =>
              e \notin PeriodExpenses(LastSettlement)
    /\ \A s1 \in DOMAIN audit, s2 \in DOMAIN audit :
          s1 # s2 => audit[s1].counted \cap audit[s2].counted = {}

\* C5: a finalize call that finds the group's most recent settlement created
\* less than 5 seconds ago returns that settlement's id and changes nothing;
\* so calls within the window add no settlement (any two settlements are at
\* least 5 seconds apart) and no second archive batch (every consumed
\* payment is in the archive once).
GuardReturns(r) ==
    /\ req[r].pc = "computed"
    /\ req'[r].pc # "computed"
    /\ settlements # {}
    /\ now - LastSettlement.created_at < 5

C5_DuplicateGuard ==
    /\ [][\A r \in Reqs : GuardReturns(r) =>
              /\ req'[r].pc = "done"
              /\ req'[r].ret = LastSettlement.id
              /\ store' = store]_vars
    /\ [](\A s1 \in settlements, s2 \in settlements :
              s1 # s2 => Abs(s1.created_at - s2.created_at) >= 5)
    /\ [](\A a1 \in archive, a2 \in archive : a1.src = a2.src => a1 = a2)

\* a second call inside the window has returned the id of the settlement the
\* first call completed, and the first call archived a payment
C5_Witness ==
    \E r \in Reqs :
        /\ req[r].pc = "done"
        /\ req[r].sid = NoId
        /\ settlements # {}
        /\ req[r].ret = LastSettlement.id
        /\ audit[LastSettlement.id].complete
        /\ now - LastSettlement.created_at \in 1..4
        /\ Cardinality(settlements) = 1
        /\ \E a \in archive : a.settlement_id = LastSettlement.id

\* C6: for any interleaving of two finalize calls on the group, no payment
\* is copied into the archive twice and no two persisted settlements were
\* computed against the same carry-forward baseline.
C6_Serialized ==
    /\ \A a1 \in archive, a2 \in archive : a1.src = a2.src => a1.id = a2.id
    /\ \A s1 \in DOMAIN audit, s2 \in DOMAIN audit :
          s1 # s2 => audit[s1].baseline # audit[s2].baseline

\* C7: whenever a settlement's header and balances are visible, its
\* carry-forward log is visible too and none of the payments folded into its
\* balances is still in the active set.
C7_VisibleTogether ==
    \A s \in settlements :
        /\ DetailsOf(s.id) # {} => \E l \in cflog : l.new_settlement_id = s.id
        /\ audit[s.id].applied \cap ActiveIds = {}

\* C8: a finalize call in which a step failed reports the failure, and
\* leaves no settlement, balance, log, history or archive row of its own and
\* the active payments it computed with still active.
C8_FailureLeavesNothing ==
    \A r \in Reqs :
        /\ (req[r].pc = "done" /\ req[r].snapFailed) => req[r].ret = Error
        /\ (req[r].pc = "done" /\ req[r].ret = Error) =>
              /\ \A s \in settlements : s.id # req[r].sid
              /\ DetailsOf(req[r].sid) = {}
              /\ \A l \in cflog : l.new_settlement_id # req[r].sid
              /\ \A h \in history : h.new_settlement_id # req[r].sid
              /\ \A a \in archive : a.settlement_id # req[r].sid
              /\ req[r].applied \subseteq ActiveIds

\* C9: a call that retries a failed finalize and returns a settlement id
\* leaves that settlement complete, the payments folded into it archived
\* exactly once and no longer active, and every payment folded into the
\* balances of one settlement only.
C9_RetrySafe ==
    \A r \in Reqs :
        (req[r].pc = "done" /\ req[r].retry /\ req[r].ret # Error) =>
            /\ audit[req[r].ret].complete
            /\ \A p \in audit[req[r].ret].applied :
                  /\ p \notin ActiveIds
                  /\ Cardinality({a \in archive : a.src = p}) = 1
            /\ \A s1 \in DOMAIN audit, s2 \in DOMAIN audit :
                  s1 # s2 => audit[s1].applied \cap audit[s2].applied = {}

\* C10: a computation or finalize on a group without participants ends in a
\* validation error, and no settlement header exists without a participant.
C10_EmptyGroupRejected ==
    /\ \A r \in Reqs :
          (req[r].pc # "idle" /\ DOMAIN req[r].result.families = {}) =>
              (req[r].pc = "done" /\ req[r].ret = Error)
    /\ \A s \in settlements : DetailsOf(s.id) # {}

\* the second half of C10 alone
NoHeaderWithoutParticipants == \A s \in settlements : DetailsOf(s.id) # {}

C12_AtMostNMinusOne ==
    mini # <<>> /\ mini.by \in {"STAY", "TRIP"} => Len(mini.out) <= Len(mini.bal) - 1

\* the bound is met: MaxLen participants and MaxLen - 1 transfers
C12_Witness ==
    /\ mini # <<>>
    /\ mini.by = "TRIP"
    /\ Len(mini.bal) = MaxLen
    /\ Len(mini.out) = MaxLen - 1

\* what the suggested transfers pay to a participant, and what they make
\* the participant pay
Received(out, f) == SumF([i \in {j \in DOMAIN out : out[j].to = f} |-> out[i].amount])

PaidOut(out, f) == SumF([i \in {j \in DOMAIN out : out[j].from = f} |-> out[i].amount])

\* C13: in every computed result, for each participant the suggested
\* transfers paid to them minus those paid by them equal that participant's
\* adjusted_balance.
C13_TransfersCancel ==
    (reply.op \in {"settlement STAY", "settlement TRIP"} /\ reply.result # NoFamilies) =>
        \A f \in DOMAIN reply.result.families :
            Received(reply.result.suggested, f) - PaidOut(reply.result.suggested, f)
                = reply.result.families[f].adjusted_balance

\* the settlement immediately preceding s in the group
Preceding(s) ==
    CHOOSE p \in settlements :
        p.id < s.id /\ \A o \in settlements : o.id < s.id => o.id <= p.id

\* C14: for every settlement S that has an earlier settlement, the baseline
\* S was computed against, per participant, and the link and
\* previous_balance of S's carry-forward log are those of the settlement
\* immediately preceding S.
C14_Chain ==
    \A s \in settlements :
        (\E o \in settlements : o.id < s.id) =>
            /\ audit[s.id].baseline = Preceding(s).id
            /\ \A f \in DOMAIN audit[s.id].carried :
                  audit[s.id].carried[f] = AdjustedOf(Preceding(s).id, f)
            /\ \A l \in cflog :
                  l.new_settlement_id = s.id =>
                      /\ l.previous_settlement_id = Preceding(s).id
                      /\ l.previous_balance = AdjustedOf(Preceding(s).id, l.family_id)

\* C15: once a finalize has succeeded, the payments folded into its balances
\* are no longer active and are in the archive exactly once, tagged with
\* that settlement; every archived payment was folded into the balances of
\* the settlement it is tagged with, no payment is folded into two
\* settlements, and no recorded payment is neither active nor archived.
C15_ConsumedOnce ==
    /\ \A s \in settlements :
          audit[s.id].complete =>
              \A p \in audit[s.id].applied :
                  /\ p \notin ActiveIds
                  /\ Cardinality({a \in archive : a.src = p}) = 1
                  /\ \A a \in archive : a.src = p => a.settlement_id = s.id
    /\ \A a \in archive : a.src \in audit[a.settlement_id].applied
    /\ \A s1 \in DOMAIN audit, s2 \in DOMAIN audit :
          s1 # s2 => audit[s1].applied \cap audit[s2].applied = {}
    /\ \A id \in 1..(serial.payment - 1) :
          id \in ActiveIds \/ \E a \in archive : a.src = id

\* C16: a settlement, once created, keeps its header and its set of
\* per-participant balance rows through every later operation.
C16_Immutable ==
    [][\A s \in settlements :
          /\ s \in settlements'
          /\ {d \in details' : d.settlement_id = s.id} = DetailsOf(s.id)]_vars

\* C17: an update or delete of a payment succeeds exactly when the payment
\* is active at the call, whether or not the group has settlements.
C17_EditableWhileActive ==
    reply.op \in {"update_settlement_transaction", "delete_settlement_transaction"} =>
        (reply.active <=> reply.result \in {"updated", "deleted"})

\* C18: in every computed result the net balances sum to zero within
\* epsilon; for STAY, so do paid - due and the carried balances.
C18_NetZeroSum ==
    /\ reply.op = "settlement STAY" =>
          LET fam == reply.result.families
          IN  /\ Abs(SumF([f \in DOMAIN fam |-> fam[f].balance])) <= Eps
              /\ Abs(SumF([f \in DOMAIN fam |-> fam[f].total_spent - fam[f].due_amount])) <= Eps
              /\ Abs(SumF([f \in DOMAIN fam |-> fam[f].previous_balance])) <= Eps
    /\ (reply.op = "settlement TRIP" /\ reply.result # NoFamilies) =>
          LET fam == reply.result.families
          IN  Abs(SumF([f \in DOMAIN fam |-> fam[f].raw_balance])) <= Eps

\* the answer the claim expects when the zero-sum check fails
ConsistencyError == [error |-> "ConsistencyError"]

\* C19: when the adjusted balances of a STAY computation sum to more than
\* 0.01 away from zero, the computation answers with a ConsistencyError.
C19_SurfacesError ==
    (/\ reply.op = "settlement STAY"
     /\ reply.seen = tables
     /\ Abs(TotalAdjusted(LastSettlement)) > Eps) => reply.result = ConsistencyError

\* C20: no participant has a weight of zero or less, and no computation
\* has answered for a participant with such a weight.
C20_PositiveWeights ==
    /\ \A f \in DOMAIN families : families[f] > 0
    /\ (reply.op \in {"settlement STAY", "settlement TRIP"} /\ reply.result # NoFamilies) =>
          \A f \in DOMAIN reply.result.families :
              reply.result.families[f].members_count > 0
    /\ \A r \in Reqs : \A f \in DOMAIN req[r].result.families :
          req[r].result.families[f].members_count > 0

\* the rows of one trip, as the statements of that trip see them
GroupRows == <<store, advances>>

\* C21: no step of a finalize of trip g changes a row of another trip
\* (settlements, balances, carry-forward log, active and archived payments),
\* and the STAY view of a trip h, computed before a finalize of another trip
\* started, is what the computation returns for h while that finalize is in
\* flight and after it.
C21_OtherGroupsUntouched ==
    /\ [][\A r \in Reqs :
              (req'[r] # req[r] /\ req'[r].pc # "idle") => elsewhere' = elsewhere]_vars
    /\ []((/\ reply.op = "settlement STAY"
           /\ reply.trip = trip
           /\ <<reply.seen[1], reply.seen[2]>> = GroupRows) => reply.result = StayView)

\* trip h has a carried balance, an active payment and a view taken before;
\* a finalize of another trip has reached its archive step
C21_Witness ==
    /\ reply.op = "settlement STAY"
    /\ reply.trip = trip
    /\ <<reply.seen[1], reply.seen[2]>> = GroupRows
    /\ reply.seen[3] # serial
    /\ payments # {}
    /\ reply.result.suggested # <<>>
    /\ \E r \in Reqs : req[r].trip # trip /\ req[r].pc = "cleared"

\* total weight of the participants, and the cost entries of the trip
TotalWeight == SumF(families)

TripCost == SumAmount(expenses)

\* C22: with participants of positive total weight, the net balance a
\* computation returns for p is (rounded for output) carry_forward_p + paid_p
\* - per_capita_cost * weight_p, per_capita_cost being the total cost of the
\* period over the total weight; TRIP adds the direct transfers p gave minus
\* those p received, STAY does not.
C22_NetFormula ==
    /\ (reply.op = "settlement STAY" /\ reply.seen = tables /\ TotalWeight > 0) =>
          \A f \in DOMAIN families :
              reply.result.families[f].balance =
                  PyRound(AdjustedOf(LastSettlement.id, f) + Spent(f, LastSettlement)
                            - Quot(TotalExpense(LastSettlement), TotalWeight) * families[f])
    /\ (reply.op = "settlement TRIP" /\ reply.seen = tables /\ TotalWeight > 0) =>
          \A f \in DOMAIN families :
              reply.result.families[f].raw_balance =
                  PyRound(TripPaid(f) - Quot(TripCost, TotalWeight) * families[f]
                            + SumAmount({a \in advances : a.payer = f})
                            - SumAmount({a \in advances : a.receiver = f}))

\* no participant has been deleted
NoneDeleted == Cardinality(DOMAIN families) = serial.family - 1

\* C23: the adjusted balance a computation returns for p is (rounded for
\* output) net_p plus the active payments p made minus the active payments p
\* received, and the adjusted balances of a STAY computation add up to what
\* its net balances add up to.
C23_AppliedPayments ==
    /\ (reply.op = "settlement STAY" /\ reply.seen = tables) =>
          /\ \A f \in DOMAIN families :
                reply.result.families[f].adjusted_balance =
                    PyRound(NetBalance(f, LastSettlement)
                              + SumAmount({p \in payments : p.from = f})
                              - SumAmount({p \in payments : p.to = f}))
          /\ SumF([f \in DOMAIN families |-> Corrected(f, LastSettlement)])
                = SumF([f \in DOMAIN families |-> NetBalance(f, LastSettlement)])
    /\ (reply.op = "settlement TRIP" /\ reply.seen = tables /\ reply.result # NoFamilies) =>
          \A f \in DOMAIN families :
              reply.result.families[f].adjusted_balance =
                  PyRound(TripNet(f)
                            + SumAmount({p \in payments : p.from = f})
                            - SumAmount({p \in payments : p.to = f}))

\* C23 where no participant has been deleted
C23_AppliedPaymentsNoneDeleted == NoneDeleted => C23_AppliedPayments

\* C24: the correction of a vector of adjusted balances whose sum is more
\* than 0.01 away from zero subtracts the whole sum from one participant of
\* largest magnitude, leaves every other balance as it was and makes the
\* total exactly zero; a vector whose sum is within 0.01 comes back unchanged.
C24_Correction ==
    (mini # <<>> /\ mini.by = "correction") =>
        LET b == mini.bal
            c == mini.out
        IN  IF Abs(SumF(b)) > Eps
            THEN /\ \E t \in DOMAIN b :
                       /\ \A g \in DOMAIN b : Abs(b[g]) <= Abs(b[t])
                       /\ c[t] = b[t] - SumF(b)
                       /\ \A g \in DOMAIN b \ {t} : c[g] = b[g]
                 /\ SumF(c) = 0
            ELSE c = b

\* a residual has been taken from the last of MaxLen participants, who is
\* the largest, the first one having a balance too
C24_Witness ==
    /\ mini # <<>>
    /\ mini.by = "correction"
    /\ Len(mini.bal) = MaxLen
    /\ Abs(SumF(mini.bal)) > Eps
    /\ mini.out[MaxLen] # mini.bal[MaxLen]
    /\ mini.bal[1] # 0

\* the correction inside the computation is the correction of the vector
CorrectionAgrees ==
    \A f \in DOMAIN families :
        Corrected(f, LastSettlement)
            = ZeroSumCorrection([g \in DOMAIN families |-> Adjusted(g, LastSettlement)])[f]

\* the participant owed most and the participant owing most, the lowest id
\* among equals
LargestCreditor(b) ==
    CHOOSE c \in DOMAIN b : \A g \in DOMAIN b : b[g] < b[c] \/ (b[g] = b[c] /\ c <= g)

LargestDebtor(b) ==
    CHOOSE d \in DOMAIN b : \A g \in DOMAIN b : b[g] > b[d] \/ (b[g] = b[d] /\ d <= g)

FirstPairsLargest(b, out) ==
    out # <<>> =>
        /\ out[1].from = LargestDebtor(b)
        /\ out[1].to = LargestCreditor(b)
        /\ out[1].amount = PyRound(Min(0 - b[LargestDebtor(b)], b[LargestCreditor(b)]))

\* C25: the first transfer either minimizer suggests goes from the
\* participant with the largest debt to the participant with the largest
\* credit, ties broken by id, and its amount is (rounded for output) the
\* smaller of the two magnitudes.
C25_LargestFirst ==
    (mini # <<>> /\ mini.by \in {"STAY", "TRIP"}) => FirstPairsLargest(mini.bal, mini.out)

\* C25 for the STAY minimizer alone
C25_LargestFirstStay ==
    (mini # <<>> /\ mini.by = "STAY") => FirstPairsLargest(mini.bal, mini.out)

\* the carry-forward log rows of settlement sid
LogOf(sid) == {l \in cflog : l.new_settlement_id = sid}

\* what the claim expects the log of settlement s to be
ExpectedLog(s) ==
    LET first == \A o \in settlements : o.id >= s.id
        prevId == IF first THEN NoId ELSE Preceding(s).id
    IN  {[previous_settlement_id |-> prevId, new_settlement_id |-> s.id,
          family_id |-> d.family_id,
          previous_balance |-> IF first THEN 0 ELSE AdjustedOf(prevId, d.family_id),
          new_balance |-> d.adjusted_balance,
          delta |-> d.adjusted_balance
                      - (IF first THEN 0 ELSE AdjustedOf(prevId, d.family_id))]
            : d \in DetailsOf(s.id)}

\* C26: when a finalize call has returned a settlement id, the carry-forward
\* log of that settlement holds exactly one entry per participant of the
\* settlement: without link, previous_balance 0 and delta = new_balance if
\* it is the group's first settlement, else linked to the settlement before
\* it, with that settlement's adjusted_balance of the participant (0 without
\* a row there) and delta = new_balance - previous_balance; and the log
\* writer never adds rows for a settlement that has some.
C26_CarryForwardLog ==
    /\ [](\A r \in Reqs :
              (req[r].pc = "done" /\ req[r].ret # Error) =>
                  \A s \in settlements : s.id = req[r].ret => LogOf(s.id) = ExpectedLog(s))
    /\ [][\A s \in settlements : LogOf(s.id) # {} =>
              {l \in cflog' : l.new_settlement_id = s.id} = LogOf(s.id)]_vars

\* C27: the net_balance and adjusted_balance rows a finalize persists are
\* the unrounded values of the calculator and the applier (after the
\* zero-sum correction) for the store the finalize computed from; no caller
\* changes the store between the computation and the insert here.
C27_StoredUnrounded ==
    [][\A r \in Reqs :
          (req[r].pc = "open" /\ req'[r].pc = "committed") =>
              \A d \in details' :
                  d.settlement_id = req'[r].sid =>
                      /\ d.balance = NetBalance(d.family_id, LastSettlement)
                      /\ d.adjusted_balance = Corrected(d.family_id, LastSettlement)]_vars

\* C28: every stored settlement has period_start <= period_end, and the
\* period of a settlement that has an earlier one starts strictly after the
\* period_end of the settlement before it.
C28_PeriodsOrdered ==
    \A s \in settlements :
        /\ s.period_start <= s.period_end
        /\ (\E o \in settlements : o.id < s.id) =>
              s.period_start > Preceding(s).period_end

\* C29: every archived payment was among the active payments read by the
\* computation of the settlement it is archived under.
C29_ArchivedWereRead ==
    \A a \in archive :
        /\ a.settlement_id \in DOMAIN audit
        /\ a.src \in audit[a.settlement_id].applied

\* C30: a cost entry that was recorded before the computation of some
\* persisted settlement is counted in the total and the paid amounts of at
\* least one persisted settlement.
C30_NoCostEntryLost ==
    \A e \in expenses :
        (\E s \in DOMAIN audit : e.id < audit[s].expSerial) =>
            \E s \in DOMAIN audit : e.id \in audit[s].counted

====
